---- MODULE Spec2Model ----
(***************************************************************************)
(* Model of the voice calendar assistant in src/server.py: one dialogue    *)
(* session runs fill_missing_fields, check_for_conflicts and               *)
(* add_event_to_calendar against the speech channel and the calendar store.*)
(* Texts are sequences of one-character strings, so that lower-casing,     *)
(* exact vocabulary match and substring match are computed, not assumed.   *)
(* Times are whole hours: t = 24 * day + hour of day.                      *)
(***************************************************************************)
EXTENDS Integers, Sequences, FiniteSets, TLC

\* ---------------------------------------------------------------- bounds
\* how many times listen() may fail to recognise speech before a reply
MaxRetries == 1
\* how many bookings other writers of the store may add during a session
MaxOtherWrites == 1
\* the pre-filled times of a draft are 18:00 and 18:00 + MaxSpan hours
MaxSpan == 2

\* ----------------------------------------------------------------- texts
Uppers == <<"A","B","C","D","E","F","G","H","I","J","K","L","M",
            "N","O","P","Q","R","S","T","U","V","W","X","Y","Z">>
Lowers == <<"a","b","c","d","e","f","g","h","i","j","k","l","m",
            "n","o","p","q","r","s","t","u","v","w","x","y","z">>

\* str.lower() on one character
LowerChar(c) ==
    IF \E i \in 1..26 : Uppers[i] = c
    THEN Lowers[CHOOSE i \in 1..26 : Uppers[i] = c]
    ELSE c

\* str.lower()
Lower(s) == [i \in 1..Len(s) |-> LowerChar(s[i])]

\* needle in hay (Python substring test)
Contains(hay, needle) ==
    \E i \in 0..(Len(hay) - Len(needle)) :
        SubSeq(hay, i + 1, i + Len(needle)) = needle

tCancel     == <<"c","a","n","c","e","l">>
tNevermind  == <<"n","e","v","e","r","m","i","n","d">>
tReschedule == <<"r","e","s","c","h","e","d","u","l","e">>
tChange     == <<"c","h","a","n","g","e">>
tYes        == <<"y","e","s">>

\* the replies the channel may deliver: "", "cancel", "Nevermind",
\* "Yes please", "no", "8pm"
rEmpty     == << >>
rNevermind == <<"N","e","v","e","r","m","i","n","d">>
rYesPlease == <<"Y","e","s"," ","p","l","e","a","s","e">>
rNo        == <<"n","o">>
r8pm       == <<"8","p","m">>
Replies == {rEmpty, tCancel, rNevermind, rYesPlease, rNo, r8pm}

tDinner == <<"D","i","n","n","e","r">>
tHome   == <<"H","o","m","e">>

\* title.lower() in ["cancel", "nevermind"], written with exact case only
IsCancelCaseSensitive(r) == r \in {tCancel, tNevermind}

\* title.lower() in ["cancel", "nevermind"]
IsCancel(r) == Lower(r) \in {tCancel, tNevermind}

\* an affirmative test that takes every non-empty reply as a yes
IsAffirmativeAny(r) == Len(r) > 0

\* "reschedule" in response or "change" in response or "yes" in response,
\* where response = listen().lower()
IsAffirmative(r) ==
    \/ Contains(Lower(r), tReschedule)
    \/ Contains(Lower(r), tChange)
    \/ Contains(Lower(r), tYes)

\* ----------------------------------------------------------------- times
\* tzlocal.get_localzone(): the offset of the local zone, in hours
LocalZone == 0

Digits == <<"1","2","3","4","5","6","7","8","9">>

\* a datetime object: wall-clock hour count, tz-aware or naive, utc offset
DT(t, aware, off) == [t |-> t, aware |-> aware, off |-> off]

\* the texts dateutil can parse in this model: "<d>am" / "<d>pm"
Parseable(text) ==
    LET s == Lower(text) IN
    /\ Len(s) = 3
    /\ \E d \in 1..9 : Digits[d] = s[1]
    /\ s[2] \in {"a", "p"}
    /\ s[3] = "m"

HourOf(text) ==
    LET s == Lower(text)
        d == CHOOSE d \in 1..9 : Digits[d] = s[1]
    IN  IF s[2] = "p" THEN d + 12 ELSE d

\* parser.parse(text, default=d) for a bare time of day: the date and the
\* zone come from the default, the hour from the text
ParseWithDefault(text, d) == DT((d.t \div 24) * 24 + HourOf(text), d.aware, d.off)

\* the value of a draft's start / end field
NoneV     == [kind |-> "none",  t |-> 0, aware |-> FALSE, off |-> 0]
EmptyV    == [kind |-> "empty", t |-> 0, aware |-> FALSE, off |-> 0]
JunkV     == [kind |-> "junk",  t |-> 0, aware |-> FALSE, off |-> 0]
Iso(t, aware, off) == [kind |-> "iso", t |-> t, aware |-> aware, off |-> off]

\* dt.strftime("%Y-%m-%dT%H:%M:%S"): the wall-clock time, the offset dropped
Strftime(dt) == Iso(dt.t, FALSE, 0)

\* parser.parse(field) succeeds only on an ISO string (None, "" and other
\* text raise)
IsoParses(v) == v.kind = "iso"
IsoParse(v) == DT(v.t, v.aware, v.off)

\* a field test that asks even when the field is filled
NotGivenAlways(ev, f) == TRUE

\* not event.get(f): the field is absent, None or the empty string
NotGiven(ev, f) ==
    IF f \in {"title", "location"} THEN ev[f] = << >>
    ELSE ev[f].kind \in {"none", "empty"}

\* parse_natural_time(text, base_time)
parse_natural_time(text, base) ==
    IF text = << >> THEN NoneV
    ELSE IF Parseable(text) THEN Strftime(ParseWithDefault(text, base))
    ELSE Strftime(base)

\* start.replace(tzinfo=tz) when start.tzinfo is None
WithLocalZone(dt) == IF dt.aware THEN dt ELSE DT(dt.t, TRUE, LocalZone)

\* the instant a tz-aware datetime denotes
Instant(dt) == dt.t - dt.off

\* dt + timedelta(hours=1)
PlusHour(dt) == DT(dt.t + 1, dt.aware, dt.off)

\* an ordering rule that lets end = start through
EnsureOrderedStrict(s, e) == IF Instant(e) < Instant(s) THEN PlusHour(s) ELSE e

\* if end <= start: end = start + timedelta(hours=1)
EnsureOrdered(s, e) == IF Instant(e) <= Instant(s) THEN PlusHour(s) ELSE e

\* ----------------------------------------------------------------- state
VARIABLES
    pc,          \* position of the session's flow of control
    event,       \* the draft fill_missing_fields works on
    entry,       \* the draft as it was on entry (from extract_event_details)
    now,         \* datetime.now() taken on entry to fill_missing_fields
    store,       \* the bookings held by the calendar
    returned,    \* what fill_missing_fields returned: pending, None, event
    caller,      \* who called check_for_conflicts: none, fill, add
    cfcArgs,     \* start_datetime, end_datetime of the current check
    win,         \* start / end after zone and ordering: the queried window
    listed,      \* the list call of the current check: none, empty, events, raised
    cfcRet,      \* the tuple the current check returned
    addArgs,     \* title, start, end, location inside add_event_to_calendar
    outcome,     \* how the session ended
    prompts,     \* every prompt issued in the session, in order
    cfcPrompts,  \* the prompts issued by the current check
    lastReply,   \* the last reply delivered by listen() and its prompt
    retries,     \* unrecognised attempts inside the current listen()
    calls,       \* check_for_conflicts invocations per caller
    listCalls,   \* store list calls of the session
    inserts,     \* store insert calls of the session
    otherWrites, \* bookings added by other writers
    chosen       \* the first replacement time chosen: who asked, and the list
                 \* calls and prompts of the session at that moment

vars == <<pc, event, entry, now, store, returned, caller, cfcArgs, win, listed,
          cfcRet, addArgs, outcome, prompts, cfcPrompts, lastReply, retries,
          calls, listCalls, inserts, otherWrites, chosen>>

Fields == <<"title", "start", "end", "location">>
FieldSet == {"title", "start", "end", "location"}
FieldIndex(f) == CHOOSE i \in 1..4 : Fields[i] = f

\* a field order that asks for the end before the start
AfterFieldSwapped(f) ==
    CASE f = "title" -> "check_end"
      [] f = "end" -> "check_start"
      [] f = "start" -> "check_location"
      [] OTHER -> "fill_check"

\* where control goes after field f
AfterField(f) == IF f = "location" THEN "fill_check" ELSE "check_" \o Fields[FieldIndex(f) + 1]

ListenPcs == {"listen_title", "listen_start", "listen_end", "listen_location",
              "listen_resched", "listen_newtime"}

PreTimes == {18, 18 + MaxSpan}
\* a draft's pre-filled time: "", unparseable text, a naive ISO time, or an
\* ISO time with an offset one hour east of the local zone
Prefill == {EmptyV, JunkV} \cup {Iso(t, FALSE, 0) : t \in PreTimes}
                           \cup {Iso(18 + MaxSpan, TRUE, 1)}

tGym == <<"G","y","m">>
Booking(summary, s, e, ok) == [summary |-> summary, s |-> s, e |-> e, ok |-> ok]
\* bookings of other people: Gym 18-19, and a record of the same hours
\* without its start / end keys
Bookings == {Booking(tGym, 18, 19, TRUE), Booking(tGym, 18, 19, FALSE)}

NoWin == [min |-> DT(0, FALSE, 0), max |-> DT(0, FALSE, 0)]
NoRet == [done |-> FALSE, start |-> NoneV, end |-> NoneV, hadConflict |-> FALSE]
NoChoice == [done |-> FALSE, by |-> "none", lists |-> 0, prompts |-> 0]
NoArgs == [title |-> << >>, start |-> NoneV, end |-> NoneV, location |-> << >>]

Init ==
    /\ pc = "check_title"
    /\ event \in [title : {<< >>, tDinner}, start : Prefill, end : Prefill,
                  location : {<< >>, tHome}]
    /\ entry = event
    /\ now = DT(9, FALSE, 0)
    /\ store \in SUBSET Bookings
    /\ returned = "pending"
    /\ caller = "none"
    /\ cfcArgs = [start |-> NoneV, end |-> NoneV]
    /\ win = NoWin
    /\ listed = "none"
    /\ cfcRet = NoRet
    /\ addArgs = NoArgs
    /\ outcome = "running"
    /\ prompts = << >>
    /\ cfcPrompts = << >>
    /\ lastReply = [prompt |-> "none", text |-> << >>]
    /\ retries = 0
    /\ calls = [c \in {"fill", "add"} |-> 0]
    /\ listCalls = 0
    /\ inserts = 0
    /\ otherWrites = 0
    /\ chosen = NoChoice

cfcVars == <<caller, cfcArgs, win, listed, cfcRet, cfcPrompts, chosen>>
storeVars == <<store, listCalls, inserts, otherWrites>>

\* ------------------------------------------------- fill_missing_fields
\* if not event.get(f): speak(<question for f>); listen()
AskField(f) ==
    /\ pc = "check_" \o f
    /\ NotGiven(event, f)
    /\ prompts' = Append(prompts, f)
    /\ pc' = "listen_" \o f
    /\ UNCHANGED <<event, entry, now, returned, addArgs, outcome, lastReply,
                   retries, calls, cfcVars, storeVars>>

\* the field is already filled: the if body is skipped
SkipField(f) ==
    /\ pc = "check_" \o f
    /\ ~NotGiven(event, f)
    /\ pc' = AfterField(f)
    /\ UNCHANGED <<event, entry, now, returned, addArgs, outcome, prompts,
                   lastReply, retries, calls, cfcVars, storeVars>>

\* the value stored for field f from reply r
Stored(f, r) == IF f \in {"start", "end"} THEN parse_natural_time(r, now) ELSE r

\* listen() returns r: cancel, or store the reply in the field
ReplyField(f, r) ==
    /\ pc = "listen_" \o f
    /\ lastReply' = [prompt |-> f, text |-> r]
    /\ retries' = 0
    /\ IF IsCancel(r)
       THEN /\ returned' = "None"
            /\ pc' = "main_branch"
            /\ UNCHANGED event
       ELSE /\ event' = [event EXCEPT ![f] = Stored(f, r)]
            /\ pc' = AfterField(f)
            /\ UNCHANGED returned
    /\ UNCHANGED <<entry, now, addArgs, outcome, prompts, calls, cfcVars, storeVars>>

\* listen(): sr.UnknownValueError, "could you repeat?", listen() again
ListenRetry ==
    /\ pc \in ListenPcs
    /\ retries < MaxRetries
    /\ retries' = retries + 1
    /\ UNCHANGED <<pc, event, entry, now, returned, addArgs, outcome, prompts,
                   lastReply, calls, cfcVars, storeVars>>

\* the call check_for_conflicts(service, s, e) made by who
CallCfc(who, s, e) ==
    /\ caller' = who
    /\ cfcArgs' = [start |-> s, end |-> e]
    /\ calls' = [calls EXCEPT ![who] = @ + 1]
    /\ win' = NoWin
    /\ listed' = "none"
    /\ cfcRet' = NoRet
    /\ cfcPrompts' = << >>
    /\ pc' = "cfc_parse"
    /\ UNCHANGED chosen

\* fill_missing_fields that trusts pre-filled times and returns them unchecked
FillCheckConflictsSkipPrefilled ==
    /\ pc = "fill_check"
    /\ IF ~NotGiven(entry, "start") /\ ~NotGiven(entry, "end")
       THEN /\ returned' = "event"
            /\ pc' = "main_branch"
            /\ UNCHANGED <<calls, cfcVars>>
       ELSE /\ CallCfc("fill", event.start, event.end)
            /\ UNCHANGED returned
    /\ UNCHANGED <<event, entry, now, addArgs, outcome, prompts, lastReply,
                   retries, storeVars>>

\* new_start, new_end, _ = check_for_conflicts(service, event["start"], event["end"])
FillCheckConflicts ==
    /\ pc = "fill_check"
    /\ CallCfc("fill", event.start, event.end)
    /\ UNCHANGED <<event, entry, now, returned, addArgs, outcome, prompts,
                   lastReply, retries, storeVars>>

\* ------------------------------------------------- check_for_conflicts
\* return s, e, had: the caller takes the interval over
Return(s, e, had) ==
    /\ cfcRet' = [done |-> TRUE, start |-> s, end |-> e, hadConflict |-> had]
    /\ IF caller = "fill"
       THEN /\ event' = [event EXCEPT !.start = s, !.end = e]
            /\ returned' = "event"
            /\ pc' = "main_branch"
            /\ UNCHANGED addArgs
       ELSE /\ addArgs' = [addArgs EXCEPT !.start = s, !.end = e]
            /\ pc' = "add_insert"
            /\ UNCHANGED <<event, returned>>

\* the first try block: parse both times, attach the local zone, order them
CfcParse ==
    /\ pc = "cfc_parse"
    /\ IF IsoParses(cfcArgs.start) /\ IsoParses(cfcArgs.end)
       THEN LET s == WithLocalZone(IsoParse(cfcArgs.start))
                e == WithLocalZone(IsoParse(cfcArgs.end))
            IN  /\ win' = [min |-> s, max |-> EnsureOrdered(s, e)]
                /\ pc' = "cfc_list"
                /\ UNCHANGED <<event, returned, addArgs, cfcRet>>
       ELSE /\ Return(cfcArgs.start, cfcArgs.end, FALSE)
            /\ UNCHANGED win
    /\ UNCHANGED <<entry, now, outcome, prompts, lastReply, retries, calls,
                   caller, cfcArgs, listed, cfcPrompts, chosen, storeVars>>

\* a no-conflict return that hands back the normalised window
NoConflictResultWindow(args, w) == [start |-> Strftime(w.min), end |-> Strftime(w.max)]

\* No conflicts: return start_datetime, end_datetime, False
NoConflictResult(args, w) == [start |-> args.start, end |-> args.end]

\* a list failure that is not caught and ends the process
ListRaisedUncaught ==
    /\ listed' = "raised"
    /\ outcome' = "crashed"
    /\ pc' = "done"
    /\ UNCHANGED <<event, returned, addArgs, cfcRet, prompts, cfcPrompts>>

\* a list failure reported to the caller as a conflict
ListRaisedHadConflict ==
    /\ listed' = "raised"
    /\ Return(cfcArgs.start, cfcArgs.end, TRUE)
    /\ UNCHANGED <<outcome, prompts, cfcPrompts>>

\* the list call raises: "problem checking your calendar", originals, False
ListRaised ==
    /\ listed' = "raised"
    /\ Return(cfcArgs.start, cfcArgs.end, FALSE)
    /\ UNCHANGED <<outcome, prompts, cfcPrompts>>

\* a list call that misses a booking starting exactly at timeMin
OverlappingAfterStart(w) ==
    {b \in store : b.s > Instant(w.min) /\ b.s < Instant(w.max)}

\* events().list(timeMin, timeMax): the bookings that intersect the window
Overlapping(w) == {b \in store : b.e > Instant(w.min) /\ b.s < Instant(w.max)}

\* the list call, the announcement of the conflicts and the "reschedule?" prompt
CfcList ==
    /\ pc = "cfc_list"
    /\ listCalls' = listCalls + 1
    /\ \E raises \in BOOLEAN :
        IF raises
        THEN ListRaised
        ELSE /\ UNCHANGED outcome
             /\ LET events == Overlapping(win) IN
                 IF events = {}
                 THEN /\ listed' = "empty"
                      /\ Return(NoConflictResult(cfcArgs, win).start,
                                NoConflictResult(cfcArgs, win).end, FALSE)
                      /\ UNCHANGED <<prompts, cfcPrompts>>
                 ELSE /\ listed' = "events"
                      /\ IF \E b \in events : ~b.ok
                         THEN \* event['start'] raises KeyError: the except branch
                              /\ Return(cfcArgs.start, cfcArgs.end, FALSE)
                              /\ UNCHANGED <<prompts, cfcPrompts>>
                         ELSE /\ prompts' = Append(prompts, "reschedule")
                              /\ cfcPrompts' = Append(cfcPrompts, "reschedule")
                              /\ pc' = "listen_resched"
                              /\ UNCHANGED <<event, returned, addArgs, cfcRet>>
    /\ UNCHANGED <<entry, now, lastReply, retries, calls, caller,
                   cfcArgs, win, chosen, store, inserts, otherWrites>>

\* response = listen().lower(): ask for a new time or keep the original
ReplyResched(r) ==
    /\ pc = "listen_resched"
    /\ lastReply' = [prompt |-> "reschedule", text |-> r]
    /\ retries' = 0
    /\ IF IsAffirmative(r)
       THEN /\ prompts' = Append(prompts, "newtime")
            /\ cfcPrompts' = Append(cfcPrompts, "newtime")
            /\ pc' = "listen_newtime"
            /\ UNCHANGED <<event, returned, addArgs, cfcRet>>
       ELSE /\ Return(cfcArgs.start, cfcArgs.end, TRUE)
            /\ UNCHANGED <<prompts, cfcPrompts>>
    /\ UNCHANGED <<entry, now, outcome, calls, caller, cfcArgs, win, listed,
                   chosen, storeVars>>

\* the record of the first replacement time the user chose
Choose ==
    IF chosen.done THEN chosen
    ELSE [done |-> TRUE, by |-> caller, lists |-> listCalls, prompts |-> Len(prompts)]

\* a new end that keeps the length of the original interval
NewEndKeepDuration(new_start, w) ==
    DT(new_start.t + (Instant(w.max) - Instant(w.min)), new_start.aware, new_start.off)

\* new_end = new_start + timedelta(hours=1)
NewEnd(new_start, w) == PlusHour(new_start)

\* a negotiation that asks for the new time again when it does not parse
ReplyNewTimeAskAgain(r) ==
    /\ pc = "listen_newtime"
    /\ lastReply' = [prompt |-> "newtime", text |-> r]
    /\ retries' = 0
    /\ IF Parseable(r)
       THEN LET new_start == ParseWithDefault(r, win.min)
                new_end == NewEnd(new_start, win)
            IN  /\ Return(Strftime(new_start), Strftime(new_end), TRUE)
                /\ chosen' = Choose
                /\ UNCHANGED <<prompts, cfcPrompts>>
       ELSE /\ Len(cfcPrompts) < 4
            /\ UNCHANGED chosen
            /\ prompts' = Append(prompts, "newtime")
            /\ cfcPrompts' = Append(cfcPrompts, "newtime")
            /\ UNCHANGED <<pc, event, returned, addArgs, cfcRet>>
    /\ UNCHANGED <<entry, now, outcome, calls, caller, cfcArgs, win, listed,
                   storeVars>>

\* new_time_response = listen(): parse it against the original start, the
\* new end is one hour later; on a parse failure keep the original
ReplyNewTime(r) ==
    /\ pc = "listen_newtime"
    /\ lastReply' = [prompt |-> "newtime", text |-> r]
    /\ retries' = 0
    /\ IF Parseable(r)
       THEN LET new_start == ParseWithDefault(r, win.min)
                new_end == NewEnd(new_start, win)
            IN  /\ Return(Strftime(new_start), Strftime(new_end), TRUE)
                /\ chosen' = Choose
       ELSE /\ Return(cfcArgs.start, cfcArgs.end, TRUE)
            /\ UNCHANGED chosen
    /\ UNCHANGED <<entry, now, outcome, prompts, cfcPrompts, calls, caller,
                   cfcArgs, win, listed, storeVars>>

\* ------------------------------------------------------------- __main__
\* a top level that goes on to the insert although the dialogue was cancelled
MainCancelledProceeds ==
    /\ pc = "main_branch"
    /\ returned = "None"
    /\ addArgs' = [title |-> event.title, start |-> event.start,
                   end |-> event.end, location |-> event.location]
    /\ pc' = "add_insert"
    /\ UNCHANGED <<event, entry, now, returned, outcome, prompts, lastReply,
                   retries, calls, cfcVars, storeVars>>

\* final_event is None: "Event creation has been cancelled. Goodbye!"
MainCancelled ==
    /\ pc = "main_branch"
    /\ returned = "None"
    /\ outcome' = "cancelled"
    /\ pc' = "done"
    /\ UNCHANGED <<event, entry, now, returned, addArgs, prompts, lastReply,
                   retries, calls, cfcVars, storeVars>>

\* ----------------------------------------------- add_event_to_calendar
\* an add_event_to_calendar that inserts without a conflict check of its own
AddEventToCalendarNoCheck ==
    /\ pc = "main_branch"
    /\ returned = "event"
    /\ addArgs' = [title |-> event.title, start |-> event.start,
                   end |-> event.end, location |-> event.location]
    /\ IF event.start.kind = "none" \/ event.end.kind = "none"
       THEN /\ outcome' = "cancelled_at_commit"
            /\ pc' = "done"
       ELSE /\ pc' = "add_insert"
            /\ UNCHANGED outcome
    /\ UNCHANGED <<event, entry, now, returned, prompts, lastReply, retries,
                   calls, cfcVars, storeVars>>

\* the guard on None arguments, then the conflict check of the function
AddEventToCalendar ==
    /\ pc = "main_branch"
    /\ returned = "event"
    /\ addArgs' = [title |-> event.title, start |-> event.start,
                   end |-> event.end, location |-> event.location]
    /\ IF event.start.kind = "none" \/ event.end.kind = "none"
       THEN /\ outcome' = "cancelled_at_commit"
            /\ pc' = "done"
            /\ UNCHANGED <<calls, cfcVars>>
       ELSE /\ CallCfc("add", event.start, event.end)
            /\ UNCHANGED outcome
    /\ UNCHANGED <<event, entry, now, returned, prompts, lastReply, retries,
                   storeVars>>

\* an insert that is submitted once more after a failure
AddInsertRetry ==
    /\ pc = "add_insert"
    /\ inserts' = inserts + 1
    /\ \E accepted \in BOOLEAN :
        IF accepted /\ IsoParses(addArgs.start) /\ IsoParses(addArgs.end)
        THEN /\ store' = store \cup
                  {Booking(addArgs.title,
                           Instant(WithLocalZone(IsoParse(addArgs.start))),
                           Instant(WithLocalZone(IsoParse(addArgs.end))), TRUE)}
             /\ outcome' = "inserted"
             /\ pc' = "done"
        ELSE /\ IF inserts < 1
                THEN pc' = "add_insert" /\ UNCHANGED outcome
                ELSE pc' = "done" /\ outcome' = "commit_failed"
             /\ UNCHANGED store
    /\ UNCHANGED <<event, entry, now, returned, addArgs, prompts, lastReply,
                   retries, calls, cfcVars, listCalls, otherWrites>>

\* events().insert(body).execute(): the store takes the event or raises
AddInsert ==
    /\ pc = "add_insert"
    /\ inserts' = inserts + 1
    /\ pc' = "done"
    /\ \E accepted \in BOOLEAN :
        IF accepted /\ IsoParses(addArgs.start) /\ IsoParses(addArgs.end)
        THEN /\ store' = store \cup
                  {Booking(addArgs.title,
                           Instant(WithLocalZone(IsoParse(addArgs.start))),
                           Instant(WithLocalZone(IsoParse(addArgs.end))), TRUE)}
             /\ outcome' = "inserted"
        ELSE /\ outcome' = "commit_failed"
             /\ UNCHANGED store
    /\ UNCHANGED <<event, entry, now, returned, addArgs, prompts, lastReply,
                   retries, calls, cfcVars, listCalls, otherWrites>>

\* ------------------------------------------------------- other writers
\* another client of the calendar adds a booking while the session runs
OtherWriterInsert ==
    /\ pc # "done"
    /\ otherWrites < MaxOtherWrites
    /\ \E b \in Bookings \ store : store' = store \cup {b}
    /\ otherWrites' = otherWrites + 1
    /\ UNCHANGED <<pc, event, entry, now, returned, addArgs, outcome, prompts,
                   lastReply, retries, calls, cfcVars, listCalls, inserts>>

\* ------------------------------------------------------- specification
SessionStep ==
    \/ \E f \in FieldSet : AskField(f)
    \/ \E f \in FieldSet : SkipField(f)
    \/ \E f \in FieldSet, r \in Replies : ReplyField(f, r)
    \/ FillCheckConflicts
    \/ CfcParse
    \/ CfcList
    \/ \E r \in Replies : ReplyResched(r)
    \/ \E r \in Replies : ReplyNewTime(r)
    \/ MainCancelled
    \/ AddEventToCalendar
    \/ AddInsert

Next ==
    \/ SessionStep
    \/ ListenRetry
    \/ OtherWriterInsert

Spec == Init /\ [][Next]_vars

\* every step of the sequential flow is eventually taken, and every prompt
\* eventually receives a reply
FairSpec == Spec /\ WF_vars(SessionStep)

\* ---------------------------------------------------------------- claims
\* the replies of the channel that are "cancel" or "nevermind" in some case
CancelTexts == {tCancel, rNevermind}
\* the replies that contain none of "reschedule", "change", "yes"
NonAffirmativeTexts == {rEmpty, tCancel, rNevermind, rNo, r8pm}
\* field f of draft ev is filled
Filled(ev, f) ==
    IF f \in {"title", "location"} THEN Len(ev[f]) > 0 ELSE ev[f].kind \in {"iso", "junk"}

\* C1: a reply "cancel" / "nevermind" (any case) to a field prompt ends the
\* dialogue as cancelled: fill_missing_fields returns None, that prompt is
\* the last prompt of the session and no conflict check or list call is made.
C1_CancelAtFieldPrompt ==
    (lastReply.prompt \in FieldSet /\ lastReply.text \in CancelTexts) =>
        /\ returned = "None"
        /\ pc \in {"main_branch", "done"}
        /\ prompts[Len(prompts)] = lastReply.prompt
        /\ calls["fill"] = 0 /\ calls["add"] = 0
        /\ listCalls = 0

C1_Witness ==
    /\ pc = "done"
    /\ outcome = "cancelled"
    /\ lastReply = [prompt |-> "end", text |-> rNevermind]
    /\ prompts = <<"title", "start", "end">>

\* C2 as stated: whenever fill_missing_fields has returned after a
\* cancellation reply, whichever prompt received it, it returned None.
C2_CancelAtAnyPrompt ==
    (pc = "main_branch" /\ lastReply.text \in CancelTexts) => returned = "None"

\* C2 amended: fill_missing_fields returns None exactly when the last reply
\* was a cancellation word given at one of the four field prompts; given at
\* the "reschedule?" or "new time" prompt it does not cancel: the check
\* returns the interval it was given with hadConflict = true.
C2_CancelOnlyAtFieldPrompts ==
    /\ pc = "main_branch" =>
          (returned = "None" <=>
              (lastReply.prompt \in FieldSet /\ lastReply.text \in CancelTexts))
    /\ ( /\ cfcRet.done
         /\ cfcPrompts # << >>
         /\ lastReply.text \in CancelTexts ) =>
          /\ cfcRet.start = cfcArgs.start
          /\ cfcRet.end = cfcArgs.end
          /\ cfcRet.hadConflict

C2_Witness ==
    /\ pc = "main_branch"
    /\ returned = "event"
    /\ lastReply = [prompt |-> "newtime", text |-> tCancel]
    /\ cfcRet.hadConflict

\* C3: a run of fill_missing_fields that is not cancelled calls
\* check_for_conflicts exactly once, on the draft's start and end (the
\* pre-filled ones when they were given), and the returned draft carries the
\* interval the check returned.
C3_ConflictCheckNotBypassed ==
    /\ calls["fill"] <= 1
    /\ returned = "event" => calls["fill"] = 1
    /\ (pc = "main_branch" /\ returned = "event") =>
          /\ cfcRet.done
          /\ caller = "fill"
          /\ event.start = cfcRet.start
          /\ event.end = cfcRet.end
          /\ Filled(entry, "start") => cfcArgs.start = entry.start
          /\ Filled(entry, "end") => cfcArgs.end = entry.end

C3_Witness ==
    /\ pc = "main_branch"
    /\ returned = "event"
    /\ entry.start.kind = "iso"
    /\ entry.end.kind = "iso"
    /\ calls["fill"] = 1
    /\ event.start # entry.start

\* C4: a draft returned by fill_missing_fields whose start and end are both
\* times has end later than start.
C4_ReturnedDraftOrdered ==
    ( /\ pc = "main_branch"
      /\ returned = "event"
      /\ event.start.kind = "iso"
      /\ event.end.kind = "iso" ) =>
        Instant(WithLocalZone(IsoParse(event.end)))
            > Instant(WithLocalZone(IsoParse(event.start)))

\* C5: when the list call returns no events, check_for_conflicts returns
\* the start and end it was given, hadConflict = false, and prompts nothing.
C5_NoOverlapKeepsInterval ==
    listed = "empty" =>
        /\ cfcPrompts = << >>
        /\ cfcRet.done
        /\ cfcRet.start = cfcArgs.start
        /\ cfcRet.end = cfcArgs.end
        /\ ~cfcRet.hadConflict

C5_Witness ==
    /\ listed = "empty"
    /\ cfcRet.done
    /\ caller = "fill"
    /\ Instant(win.max) # Instant(WithLocalZone(IsoParse(cfcArgs.end)))

\* C6: one invocation of check_for_conflicts issues at most the
\* "reschedule?" prompt followed by at most one "new time" prompt.
C6_AtMostTwoRoundTrips ==
    cfcPrompts \in {<< >>, <<"reschedule">>, <<"reschedule", "newtime">>}

C6_Witness ==
    /\ cfcRet.done
    /\ cfcPrompts = <<"reschedule", "newtime">>
    /\ lastReply.prompt = "newtime"
    /\ ~Parseable(lastReply.text)

\* C8: every field prompt issued was for a field empty or absent on entry.
C8_NoPromptForFilledField ==
    \A i \in 1..Len(prompts) :
        prompts[i] \in FieldSet => ~Filled(entry, prompts[i])

C8_Witness ==
    /\ pc = "done"
    /\ Filled(entry, "title")
    /\ Filled(entry, "start")
    /\ ~Filled(entry, "end")
    /\ Filled(entry, "location")
    /\ prompts[1] = "end"

\* C9: with overlapping events and a reply to "reschedule?" that contains
\* no affirmative word, check_for_conflicts returns the interval it was
\* given, hadConflict = true, and the "new time" prompt is not issued.
C9_DeclineKeepsOriginal ==
    ( /\ cfcPrompts # << >>
      /\ pc # "listen_resched"
      /\ lastReply.prompt = "reschedule"
      /\ lastReply.text \in NonAffirmativeTexts ) =>
        /\ cfcPrompts = <<"reschedule">>
        /\ cfcRet.done
        /\ cfcRet.start = cfcArgs.start
        /\ cfcRet.end = cfcArgs.end
        /\ cfcRet.hadConflict

C9_Witness ==
    /\ cfcRet.done
    /\ listed = "events"
    /\ cfcPrompts = <<"reschedule">>
    /\ lastReply = [prompt |-> "reschedule", text |-> rNo]

\* C10: with overlapping events, an affirmative reply and the new time
\* "8pm", check_for_conflicts returns hadConflict = true, start = 20:00 on
\* the day of the original start and end = 21:00, whatever the length of
\* the original interval.
C10_RescheduleOneHour ==
    ( /\ cfcRet.done
      /\ cfcPrompts = <<"reschedule", "newtime">>
      /\ lastReply = [prompt |-> "newtime", text |-> r8pm] ) =>
        /\ cfcRet.hadConflict
        /\ cfcRet.start = Iso((cfcArgs.start.t \div 24) * 24 + 20, FALSE, 0)
        /\ cfcRet.end = Iso((cfcArgs.start.t \div 24) * 24 + 21, FALSE, 0)

C10_Witness ==
    /\ cfcRet.done
    /\ cfcPrompts = <<"reschedule", "newtime">>
    /\ lastReply = [prompt |-> "newtime", text |-> r8pm]
    /\ cfcArgs.end.t - cfcArgs.start.t = 2
    /\ cfcArgs.end.aware = cfcArgs.start.aware
    /\ cfcRet.end.t - cfcRet.start.t = 1

UnparseableTexts == {rEmpty, tCancel, rNevermind, rYesPlease, rNo}
\* the position of a field prompt in the order title, start, end, location
FieldOrder(f) == CASE f = "title" -> 1 [] f = "start" -> 2 [] f = "end" -> 3 [] OTHER -> 4
\* the instant of a draft time, a naive one read in the local zone
InstantOf(v) == IF v.aware THEN v.t - v.off ELSE v.t - LocalZone
\* the number of "reschedule?" prompts of the session
ReschedulePrompts == Cardinality({i \in 1..Len(prompts) : prompts[i] = "reschedule"})

\* C11: when the list call raises, check_for_conflicts returns the interval
\* it was given with hadConflict = false, prompts nothing, and control goes
\* back to the caller.
C11_ListFailureIsNoConflict ==
    listed = "raised" =>
        /\ cfcRet.done
        /\ cfcRet.start = cfcArgs.start
        /\ cfcRet.end = cfcArgs.end
        /\ ~cfcRet.hadConflict
        /\ cfcPrompts = << >>
        /\ pc \in {"main_branch", "add_insert", "done"}
        /\ outcome \in {"running", "inserted", "commit_failed"}

C11_Witness ==
    /\ listed = "raised"
    /\ caller = "fill"
    /\ pc = "main_branch"
    /\ returned = "event"
    /\ store # {}

\* C12: one invocation of add_event_to_calendar submits at most one insert;
\* a failed insert ends the invocation as commit-failed, with no second
\* insert.
C12_CommitDoesNotRetry ==
    /\ inserts <= 1
    /\ inserts = 1 => (pc = "done" /\ outcome \in {"inserted", "commit_failed"})
    /\ outcome = "commit_failed" => inserts = 1

C12_Witness ==
    /\ pc = "done"
    /\ outcome = "commit_failed"
    /\ inserts = 1
    /\ addArgs.start.kind = "iso"
    /\ addArgs.end.kind = "iso"

C14_SubmittedEventComplete ==
    inserts >= 1 =>
        /\ Len(addArgs.title) > 0
        /\ addArgs.start.kind \notin {"none", "empty"}
        /\ addArgs.end.kind \notin {"none", "empty"}

\* C15: the start or end stored by fill_missing_fields after a prompt is a
\* full date-time, whatever the reply was.
C15_StoredTimeNeverEmpty ==
    /\ (pc = "check_end" /\ lastReply.prompt = "start") => event.start.kind = "iso"
    /\ (pc = "check_location" /\ lastReply.prompt = "end") => event.end.kind = "iso"

\* C16: with overlapping events, an affirmative reply and a new time that
\* does not parse, check_for_conflicts returns the interval it was given with
\* hadConflict = true, and the "new time" prompt was issued once.
C16_UnparseableNewTimeKeepsOriginal ==
    ( /\ Len(cfcPrompts) >= 2
      /\ lastReply.prompt = "newtime"
      /\ lastReply.text \in UnparseableTexts ) =>
        /\ cfcPrompts = <<"reschedule", "newtime">>
        /\ cfcRet.done
        /\ cfcRet.start = cfcArgs.start
        /\ cfcRet.end = cfcArgs.end
        /\ cfcRet.hadConflict

C16_Witness ==
    /\ cfcRet.done
    /\ cfcPrompts = <<"reschedule", "newtime">>
    /\ lastReply = [prompt |-> "newtime", text |-> rNo]
    /\ cfcRet.start = cfcArgs.start
    /\ caller = "add"

\* C17: the field prompts are issued in the order title, start, end,
\* location, and no field prompt follows the start of the conflict check.
C17_FieldPromptOrder ==
    /\ \A i, j \in 1..Len(prompts) :
          (i < j /\ prompts[j] \in FieldSet) =>
              (prompts[i] \in FieldSet /\ FieldOrder(prompts[i]) < FieldOrder(prompts[j]))
    /\ calls["fill"] > 0 =>
          pc \in {"cfc_parse", "cfc_list", "listen_resched", "listen_newtime",
                  "main_branch", "add_insert", "done"}

C17_Witness ==
    /\ prompts = <<"title", "start", "end", "location", "reschedule">>
    /\ calls["fill"] = 1
    /\ pc = "listen_resched"

\* a booking of another person that intersects the event the session inserted
SilentOverlap ==
    /\ pc = "done"
    /\ outcome = "inserted"
    /\ ReschedulePrompts = 0
    /\ InstantOf(addArgs.end) > InstantOf(addArgs.start)
    /\ \E b \in store \cap Bookings :
          /\ b.ok
          /\ b.e > InstantOf(addArgs.start)
          /\ b.s < InstantOf(addArgs.end)

\* C18: check-then-insert is not atomic. The state in which the store holds a
\* booking overlapping the inserted event although the user was never asked
\* is reachable (C18_Witness), and it arises only when another writer added a
\* booking during the session, the last list call raised, or the store holds
\* a malformed record.
C18_SilentOverlapOnlyByRace ==
    SilentOverlap =>
        \/ otherWrites > 0
        \/ listed = "raised"
        \/ \E b \in store : ~b.ok

C18_Witness ==
    /\ SilentOverlap
    /\ otherWrites = 1
    /\ listCalls = 2
    /\ listed = "empty"
    /\ \A b \in store : b.ok

\* C19: the window queried from the store starts at the given start; its end
\* is start + 1 hour when the given end is not later than the start, and
\* the given end otherwise; applying the rule to the window changes nothing;
\* timeMax is later than timeMin.
C19_QueryWindowOrdered ==
    win # NoWin =>
        /\ Instant(win.min) = InstantOf(cfcArgs.start)
        /\ InstantOf(cfcArgs.end) <= InstantOf(cfcArgs.start) =>
              Instant(win.max) = InstantOf(cfcArgs.start) + 1
        /\ InstantOf(cfcArgs.end) > InstantOf(cfcArgs.start) =>
              Instant(win.max) = InstantOf(cfcArgs.end)
        /\ EnsureOrdered(win.min, win.max) = win.max
        /\ Instant(win.max) > Instant(win.min)

C19_Witness ==
    /\ pc = "cfc_list"
    /\ InstantOf(cfcArgs.end) = InstantOf(cfcArgs.start)
    /\ Instant(win.max) = Instant(win.min) + 1

\* C20: once fill_missing_fields has returned None, the session makes no
\* insert, no list call and no further prompt, and ends cancelled.
C20_CancelledNeverWrites ==
    returned = "None" =>
        /\ inserts = 0
        /\ listCalls = 0
        /\ calls["add"] = 0
        /\ \A i \in 1..Len(prompts) : prompts[i] \in FieldSet
        /\ \A b \in store : b \in Bookings
        /\ pc \in {"main_branch", "done"}
        /\ pc = "done" => outcome = "cancelled"

C20_Witness ==
    /\ pc = "done"
    /\ returned = "None"
    /\ outcome = "cancelled"
    /\ lastReply = [prompt |-> "location", text |-> tCancel]
    /\ otherWrites = 1
====
